---- MODULE Spec2Model ----
(***************************************************************************)
(* Terrain chunk lifecycle of ProceduralTerrain_Part4:                     *)
(* TerrainChunkRebuilder (the build queue, the retirement list, the reuse  *)
(* pool) and TerrainChunkManager (the per-frame Update and the diff of     *)
(* the live tile map against the freshly computed quadtree leaves).        *)
(***************************************************************************)
EXTENDS Integers, Sequences, FiniteSets, TLC

\* ------------------------------------------------------------------ bounds
\* Number of distinct leaf keys ("x/y [size] [index]") the quadtree can return.
NumKeys == 3
\* Number of TerrainChunk objects that may be constructed in one run.
MaxTiles == 3
\* Largest number of yields of one TerrainChunk._Rebuild generator.
MaxBuildSteps == 1
\* Largest number of Insert calls on one CubeQuadTree.
MaxInserts == 2

\* ------------------------------------------------------- program constants
_MIN_CELL_SIZE == 500
_PLANET_RADIUS == 4000

Keys == 1..NumKeys
TileIds == 1..MaxTiles

\* child.size of the leaf with key k (the params.width of its tile): two sizes.
Width(k) == ((k - 1) % 2) + 1

\* The key sets the leaf computation (part_001 366-395) can hand to the diff:
\* the six faces always have at least one leaf each, so never the empty set.
Targets == (SUBSET Keys) \ {{}}

VARIABLES
  pc,          \* position inside TerrainChunkManager.Update: "tick" | "gate"
  _chunks,     \* TerrainChunkManager._chunks: key -> tile
  _pool,       \* TerrainChunkRebuilder._pool: width -> stack of tiles
  _active,     \* TerrainChunkRebuilder._active: the running generator or Null
  _queued,     \* TerrainChunkRebuilder._queued
  _old,        \* TerrainChunkRebuilder._old (the chunk of each entry)
  _new,        \* TerrainChunkRebuilder._new
  visible,     \* per tile: shown (Show) or hidden (Hide)
  destroyed,   \* per tile: Destroy has been called
  params,      \* per tile: the key of its _params (0: not constructed)
  nextId,      \* the next TerrainChunk to be constructed
  op,          \* history: the operation that made the last step
  wasBusy,     \* history: Busy when the last operation was called
  fresh,       \* history: tiles handed out by AllocateChunk in the open cycle
  retired,     \* history: tiles destroyed by the most recent builder Update
  lastTarget,  \* history: leaf keys of the most recent diff
  prevTarget,  \* history: leaf keys of the diff before that
  nDiff,       \* history: number of diffs run so far, counted up to 2
  _params,     \* CubeQuadTree._params: radius and min_node_size
  _sides,      \* CubeQuadTree._sides: per face, the nodes of its QuadTree
  pos,         \* the argument of the most recent CubeQuadTree.Insert
  nIns         \* history: Insert calls on the tree since it was constructed

vars == <<pc, _chunks, _pool, _active, _queued, _old, _new, visible, destroyed,
          params, nextId, op, wasBusy, fresh, retired, lastTarget, prevTarget,
          nDiff, _params, _sides, pos, nIns>>

\* The state of the quadtree (src/quadtree.js).
qtVars == <<_params, _sides, pos, nIns>>

\* ------------------------------------------------------------------ helpers
Range(s) == {s[i] : i \in DOMAIN s}
Front(s) == SubSeq(s, 1, Len(s) - 1)
Last(s) == s[Len(s)]
Min(a, b) == IF a < b THEN a ELSE b

\* The values of dict d in iteration order (keys ascending).
RECURSIVE ValuesFrom(_, _)
ValuesFrom(d, k) ==
  IF k > NumKeys THEN <<>>
  ELSE (IF k \in DOMAIN d THEN <<d[k]>> ELSE <<>>) \o ValuesFrom(d, k + 1)
Values(d) == ValuesFrom(d, 1)

\* this._active = null
Null == [chunk |-> 0, left |-> 0]

\* ------------------------------------------------------- utils (dictionaries)
DictIntersection(dictA, dictB) ==
  [k \in (DOMAIN dictA) \cap (DOMAIN dictB) |-> dictA[k]]

DictDifference(dictA, dictB) ==
  [k \in (DOMAIN dictA) \ (DOMAIN dictB) |-> dictA[k]]

\* ------------------------------------------------------------- TerrainChunk
\* The tile resource: new TerrainChunk(params), Hide, Show, Destroy, _Rebuild.
NewTerrainChunk(s, key) ==
  [s EXCEPT !.visible[s.nextId] = TRUE,
            !.params[s.nextId] = key,
            !.nextId = s.nextId + 1]

Hide(s, c) == [s EXCEPT !.visible[c] = FALSE]

Show(s, c) == [s EXCEPT !.visible[c] = TRUE]

Destroy(s, c) == [s EXCEPT !.destroyed[c] = TRUE]

\* b._Rebuild(): a generator that yields n times before it is done.
StartRebuild(b, n) == [chunk |-> b, left |-> n]

\* ---------------------------------------------------- TerrainChunkRebuilder
\* The state the builder's methods work on, as one record.
Cur ==
  [chunks |-> _chunks, pool |-> _pool, active |-> _active, queued |-> _queued,
   old |-> _old, new |-> _new, visible |-> visible, destroyed |-> destroyed,
   params |-> params, nextId |-> nextId]

\* get Busy
BusyOf(s) == s.active # Null \/ Len(s.queued) > 0
Busy == BusyOf(Cur)

\* if (!(w in this._pool)) this._pool[w] = []
EnsureBucket(pool, w) ==
  IF w \in DOMAIN pool THEN pool
  ELSE [x \in (DOMAIN pool) \cup {w} |-> IF x = w THEN <<>> ELSE pool[x]]

\* The tile AllocateChunk hands out: the top of the pool's bucket, or a new one.
AllocatedChunk(s, key) ==
  LET pool == EnsureBucket(s.pool, Width(key))
  IN IF Len(pool[Width(key)]) > 0 THEN Last(pool[Width(key)]) ELSE s.nextId

\* AllocateChunk without its c.Hide().
AllocateChunkNoHide(s, key) ==
  LET w == Width(key)
      pool == EnsureBucket(s.pool, w)
      c == AllocatedChunk(s, key)
      s1 == IF Len(pool[w]) > 0
            THEN [s EXCEPT !.pool = [pool EXCEPT ![w] = Front(pool[w])],
                           !.params[c] = key]
            ELSE NewTerrainChunk([s EXCEPT !.pool = pool], key)
  IN [s1 EXCEPT !.queued = Append(s1.queued, c)]

AllocateChunk(s, key) ==
  LET w == Width(key)
      pool == EnsureBucket(s.pool, w)
      c == AllocatedChunk(s, key)
      s1 == IF Len(pool[w]) > 0
            THEN [s EXCEPT !.pool = [pool EXCEPT ![w] = Front(pool[w])],
                           !.params[c] = key]
            ELSE NewTerrainChunk([s EXCEPT !.pool = pool], key)
      s2 == Hide(s1, c)
  IN [s2 EXCEPT !.queued = Append(s2.queued, c)]

RECURSIVE RecycleFrom(_, _, _)
RecycleFrom(s, chunks, i) ==
  IF i > Len(chunks) THEN s
  ELSE LET c == chunks[i]
           s1 == [s EXCEPT !.pool = EnsureBucket(s.pool, Width(s.params[c]))]
       IN RecycleFrom(Destroy(s1, c), chunks, i + 1)

_RecycleChunks(s, chunks) == RecycleFrom(s, chunks, 1)

_Reset(s) ==
  [s EXCEPT !.active = Null, !.queued = <<>>, !.old = <<>>, !.new = <<>>]

\* Rebuild without its Busy check.
RebuildUnguarded(s, chunks) ==
  [s EXCEPT !.queued = s.queued \o Values(chunks)]

\* Rebuild whose loop stops one entry short.
RebuildAllButLast(s, chunks) ==
  IF BusyOf(s) THEN s
  ELSE [s EXCEPT !.queued = s.queued \o Front(Values(chunks))]

Rebuild(s, chunks) ==
  IF BusyOf(s) THEN s
  ELSE [s EXCEPT !.queued = s.queued \o Values(chunks)]

RECURSIVE ShowFrom(_, _, _)
ShowFrom(s, bs, i) ==
  IF i > Len(bs) THEN s ELSE ShowFrom(Show(s, bs[i]), bs, i + 1)

\* The tail of Update without the test of this._queued.length.
ConcludeEarly(s) ==
  IF s.active # Null THEN s
  ELSE _Reset(ShowFrom(_RecycleChunks(s, s.old), s.new, 1))

\* The tail of Update (lines 177-187), reached with the new _active.
Conclude(s) ==
  IF s.active # Null THEN s
  ELSE IF Len(s.queued) = 0
       THEN _Reset(ShowFrom(_RecycleChunks(s, s.old), s.new, 1))
       ELSE s

\* Update that shows a tile as soon as its build is started.
UpdateShowsEarly(s, n) ==
  LET s1 == IF s.active # Null
            THEN (IF s.active.left = 0
                  THEN [s EXCEPT !.active = Null]
                  ELSE [s EXCEPT !.active.left = s.active.left - 1])
            ELSE (IF Len(s.queued) > 0
                  THEN LET b == Last(s.queued)
                       IN Show([s EXCEPT !.queued = Front(s.queued),
                                         !.active = StartRebuild(b, n),
                                         !.new = Append(s.new, b)], b)
                  ELSE s)
  IN Conclude(s1)

\* Update that ignores the done report of the running build.
UpdateNeverDone(s, n) ==
  LET s1 == IF s.active # Null
            THEN [s EXCEPT !.active.left = IF s.active.left = 0
                                           THEN 0
                                           ELSE s.active.left - 1]
            ELSE IF Len(s.queued) > 0
                 THEN LET b == Last(s.queued)
                      IN [s EXCEPT !.queued = Front(s.queued),
                                   !.active = StartRebuild(b, n),
                                   !.new = Append(s.new, b)]
                 ELSE s
  IN Conclude(s1)

\* Update that pops the next tile although a build is still running.
UpdateReplaces(s, n) ==
  LET s1 == IF Len(s.queued) > 0
            THEN LET b == Last(s.queued)
                 IN [s EXCEPT !.queued = Front(s.queued),
                              !.active = StartRebuild(b, n),
                              !.new = Append(s.new, b)]
            ELSE IF s.active # Null
                 THEN (IF s.active.left = 0
                       THEN [s EXCEPT !.active = Null]
                       ELSE [s EXCEPT !.active.left = s.active.left - 1])
                 ELSE s
  IN Conclude(s1)

\* Update that starts the next queued build in the step that ends a build.
UpdateChains(s, n) ==
  LET pop(x) == IF Len(x.queued) > 0
                THEN LET b == Last(x.queued)
                     IN [x EXCEPT !.queued = Front(x.queued),
                                  !.active = StartRebuild(b, n),
                                  !.new = Append(x.new, b)]
                ELSE x
      s1 == IF s.active # Null
            THEN (IF s.active.left = 0
                  THEN pop([s EXCEPT !.active = Null])
                  ELSE [s EXCEPT !.active.left = s.active.left - 1])
            ELSE pop(s)
  IN Conclude(s1)

\* TerrainChunkRebuilder.Update; n: the yields of a build started in this call.
Update(s, n) ==
  LET s1 == IF s.active # Null
            THEN (IF s.active.left = 0
                  THEN [s EXCEPT !.active = Null]
                  ELSE [s EXCEPT !.active.left = s.active.left - 1])
            ELSE (IF Len(s.queued) > 0
                  THEN LET b == Last(s.queued)
                       IN [s EXCEPT !.queued = Front(s.queued),
                                    !.active = StartRebuild(b, n),
                                    !.new = Append(s.new, b)]
                  ELSE s)
  IN Conclude(s1)

\* ------------------------------------------------------ TerrainChunkManager
\* for (let k in difference) newTerrainChunks[k] = {chunk: _CreateTerrainChunk}
RECURSIVE CreateFrom(_, _, _)
CreateFrom(s, difference, k) ==
  IF k > NumKeys THEN s
  ELSE IF k \in DOMAIN difference
       THEN LET c == AllocatedChunk(s, k)
                s1 == AllocateChunk(s, k)
            IN CreateFrom([s1 EXCEPT !.chunks = (k :> c) @@ s1.chunks],
                          difference, k + 1)
       ELSE CreateFrom(s, difference, k + 1)

\* The diff that destroys the tiles to recycle at once instead of deferring.
UpdateVisibleChunks_Eager(s, target) ==
  LET newTerrainChunks == [k \in target |-> k]
      intersection == DictIntersection(s.chunks, newTerrainChunks)
      difference == DictDifference(newTerrainChunks, s.chunks)
      recycle == Values(DictDifference(s.chunks, newTerrainChunks))
      s1 == _RecycleChunks([s EXCEPT !.chunks = intersection], recycle)
  IN CreateFrom(s1, difference, 1)

\* The diff that adds the new tiles to this._chunks as it is, without starting
\* from the intersection.
UpdateVisibleChunks_KeepsStale(s, target) ==
  LET newTerrainChunks == [k \in target |-> k]
      difference == DictDifference(newTerrainChunks, s.chunks)
      recycle == Values(DictDifference(s.chunks, newTerrainChunks))
      s1 == [s EXCEPT !.old = s.old \o recycle]
  IN CreateFrom(s1, difference, 1)

\* The diff that leaves only the kept entries in this._chunks.
UpdateVisibleChunks_KeptOnly(s, target) ==
  LET newTerrainChunks == [k \in target |-> k]
      intersection == DictIntersection(s.chunks, newTerrainChunks)
      difference == DictDifference(newTerrainChunks, s.chunks)
      recycle == Values(DictDifference(s.chunks, newTerrainChunks))
      s1 == [s EXCEPT !.old = s.old \o recycle, !.chunks = intersection]
  IN [CreateFrom(s1, difference, 1) EXCEPT !.chunks = intersection]

\* _UpdateVisibleChunks_Quadtree from line 397 on; target: newTerrainChunks.
_UpdateVisibleChunks_Quadtree(s, target) ==
  LET newTerrainChunks == [k \in target |-> k]
      intersection == DictIntersection(s.chunks, newTerrainChunks)
      difference == DictDifference(newTerrainChunks, s.chunks)
      recycle == Values(DictDifference(s.chunks, newTerrainChunks))
      s1 == [s EXCEPT !.old = s.old \o recycle, !.chunks = intersection]
  IN CreateFrom(s1, difference, 1)

\* The tiles a diff against target has to construct fit the model's tile ids.
Fits(s, target) ==
  s.nextId + Cardinality(target \ DOMAIN s.chunks) <= MaxTiles + 1

\* ------------------------------------------------------------------ actions
Install(s) ==
  /\ _chunks' = s.chunks
  /\ _pool' = s.pool
  /\ _active' = s.active
  /\ _queued' = s.queued
  /\ _old' = s.old
  /\ _new' = s.new
  /\ visible' = s.visible
  /\ destroyed' = s.destroyed
  /\ params' = s.params
  /\ nextId' = s.nextId

\* ------------------------------------------------------- quadtree (lengths)
\* Lengths are counted in units of half the minimum cell size, so that the
\* corners and centres of every node the program can create are integers.
LengthUnit == _MIN_CELL_SIZE \div 2
Units(x) == x \div LengthUnit

\* The six sides in the order of the transforms: +Y, -Y, +X, -X, +Z, -Z.
Faces == 1..6

\* The params of new quadtree.CubeQuadTree(...) in the manager.
ProgramParams ==
  [radius |-> Units(_PLANET_RADIUS), min_node_size |-> Units(_MIN_CELL_SIZE)]

\* Parameter records the classes are exercised with: the program's, a smaller
\* planet, minimum sizes that are not the radius over a power of two, and a
\* minimum size equal to the radius.
Configs ==
  {ProgramParams,
   [radius |-> Units(_PLANET_RADIUS) \div 2,
    min_node_size |-> Units(_MIN_CELL_SIZE)],
   [radius |-> Units(_PLANET_RADIUS),
    min_node_size |-> Units(_MIN_CELL_SIZE) + 1],
   [radius |-> Units(_PLANET_RADIUS),
    min_node_size |-> 3 * Units(_MIN_CELL_SIZE)],
   [radius |-> Units(_PLANET_RADIUS),
    min_node_size |-> Units(_PLANET_RADIUS)]}

\* Camera positions for a planet of radius r: on the surface under the +Z
\* pole, on the diagonal of the cube, at the planet's centre, beside the -Y
\* face, above the +Z pole at exactly 1.25 times the root's size from it, far
\* off on the -X side, and off the edge between the +X and -Z faces at exactly
\* 1.25 times the root's size from the +Z pole.
Points(r) ==
  {<<0, 0, r>>, <<r, r, r>>, <<0, 0, 0>>, <<r \div 2, -r, 0>>,
   <<0, 0, (7 * r) \div 2>>, <<-(3 * r), 0, r \div 4>>,
   <<(3 * r) \div 2, 0, -r>>}

Dot(u, v) == u[1] * v[1] + u[2] * v[2] + u[3] * v[3]
Abs(x) == IF x < 0 THEN -x ELSE x

\* Natural numbers of any size, as their base-10000 digits, lowest first: the
\* squares compared by the distance test do not fit the machine integers.
RECURSIVE Big(_)
Big(n) == IF n = 0 THEN <<>> ELSE <<n % 10000>> \o Big(n \div 10000)

RECURSIVE BigAdd(_, _, _)
BigAdd(x, y, c) ==
  IF x = <<>> /\ y = <<>> THEN Big(c)
  ELSE LET a == IF x = <<>> THEN 0 ELSE Head(x)
           b == IF y = <<>> THEN 0 ELSE Head(y)
           s == a + b + c
       IN <<s % 10000>> \o BigAdd(IF x = <<>> THEN <<>> ELSE Tail(x),
                                  IF y = <<>> THEN <<>> ELSE Tail(y),
                                  s \div 10000)

RECURSIVE BigTimesDigit(_, _, _)
BigTimesDigit(x, d, c) ==
  IF x = <<>> THEN Big(c)
  ELSE LET s == Head(x) * d + c
       IN <<s % 10000>> \o BigTimesDigit(Tail(x), d, s \div 10000)

RECURSIVE BigTimes(_, _)
BigTimes(x, y) ==
  IF y = <<>> THEN <<>>
  ELSE BigAdd(BigTimesDigit(x, Head(y), 0), <<0>> \o BigTimes(x, Tail(y)), 0)

\* -1, 0 or 1 as x is less than, equal to or greater than y.
RECURSIVE BigCmp(_, _)
BigCmp(x, y) ==
  IF x = <<>> /\ y = <<>> THEN 0
  ELSE LET a == IF x = <<>> THEN 0 ELSE Head(x)
           b == IF y = <<>> THEN 0 ELSE Head(y)
           c == BigCmp(IF x = <<>> THEN <<>> ELSE Tail(x),
                       IF y = <<>> THEN <<>> ELSE Tail(y))
       IN IF c # 0 THEN c ELSE IF a < b THEN -1 ELSE IF a > b THEN 1 ELSE 0

\* ---------------------------------------------------------------- QuadTree
\* A tree is the set of its nodes; a node is its place in the tree (path: the
\* child indices from the root) and its bounds, a Box3 in the plane z = 0.
\* children of a node: the nodes one step below it; center and size are
\* functions of the bounds, which are never reassigned.
NewNode(path, bmin, bmax) ==
  [path |-> path, bounds |-> [min |-> bmin, max |-> bmax]]

\* Box3.getCenter and Box3.getSize (x component).
GetCenter(b) ==
  <<(b.min[1] + b.max[1]) \div 2, (b.min[2] + b.max[2]) \div 2>>
SizeX(node) == node.bounds.max[1] - node.bounds.min[1]
SizeY(node) == node.bounds.max[2] - node.bounds.min[2]

\* Vector3.applyMatrix4(localToWorld) for the point (v[1], v[2], 0) of the
\* face plane, with the transform of side f of a cube of half-edge r.
LocalToWorld(f, r, v) ==
  CASE f = 1 -> <<v[1], r, -v[2]>>
    [] f = 2 -> <<v[1], -r, v[2]>>
    [] f = 3 -> <<r, v[2], -v[1]>>
    [] f = 4 -> <<-r, v[2], v[1]>>
    [] f = 5 -> <<v[1], v[2], r>>
    [] f = 6 -> <<-v[1], v[2], -r>>

\* The params of the QuadTree of side f.
SideParams(p, f) ==
  [size |-> p.radius, min_node_size |-> p.min_node_size, localToWorld |-> f]

\* The root node alone.
QuadTree(qp) == {NewNode(<<>>, <<-qp.size, -qp.size>>, <<qp.size, qp.size>>)}

IsBelow(path, q) ==
  /\ Len(q) > Len(path)
  /\ SubSeq(q, 1, Len(path)) = path

\* node.children
Children(tree, node) ==
  {n \in tree : Len(n.path) = Len(node.path) + 1 /\ IsBelow(node.path, n.path)}

\* _DistanceToChild(child, pos) < child.size.x * 1.25, where sphereCenter is
\* the world position w of the node's centre scaled to length size. With
\* W = w.w the square of the distance is pos.pos + size^2 - 2 size (w.pos) /
\* sqrt(W), so the test is A sqrt(W) < B for the integers A and B below.
DistanceBelow(child, p, qp) ==
  LET r == qp.size
      w == LocalToWorld(qp.localToWorld, r, GetCenter(child.bounds))
      s == SizeX(child)
      A == 16 * (Dot(p, p) + r * r) - 25 * s * s
      B == 32 * r * Dot(w, p)
      lhs == BigTimes(BigTimes(Big(Abs(A)), Big(Abs(A))), Big(Dot(w, w)))
      rhs == BigTimes(Big(Abs(B)), Big(Abs(B)))
  IN IF A < 0
     THEN B >= 0 \/ BigCmp(lhs, rhs) = 1
     ELSE B > 0 /\ BigCmp(lhs, rhs) = -1

\* The same test with <= for <.
DistanceNotAbove(child, p, qp) ==
  LET r == qp.size
      w == LocalToWorld(qp.localToWorld, r, GetCenter(child.bounds))
      s == SizeX(child)
      A == 16 * (Dot(p, p) + r * r) - 25 * s * s
      B == 32 * r * Dot(w, p)
      lhs == BigTimes(BigTimes(Big(Abs(A)), Big(Abs(A))), Big(Dot(w, w)))
      rhs == BigTimes(Big(Abs(B)), Big(Abs(B)))
  IN IF A <= 0
     THEN B >= 0 \/ BigCmp(lhs, rhs) >= 0
     ELSE B > 0 /\ BigCmp(lhs, rhs) <= 0

\* The condition of _Insert with <= in the distance test.
ShouldSubdivideNonStrict(child, p, qp) ==
  /\ DistanceNotAbove(child, p, qp)
  /\ SizeX(child) > qp.min_node_size

\* The condition of the if statement of _Insert.
ShouldSubdivide(child, p, qp) ==
  /\ DistanceBelow(child, p, qp)
  /\ SizeX(child) > qp.min_node_size

\* Children whose bottom-right box is the bottom-left one again.
CreateChildrenOverlapping(child) ==
  LET b == child.bounds
      midpoint == GetCenter(b)
  IN <<NewNode(child.path \o <<1>>, b.min, midpoint),
       NewNode(child.path \o <<2>>, <<b.min[1], b.min[2]>>,
                                    <<midpoint[1], midpoint[2]>>),
       NewNode(child.path \o <<3>>, <<b.min[1], midpoint[2]>>,
                                    <<midpoint[1], b.max[2]>>),
       NewNode(child.path \o <<4>>, midpoint, b.max)>>

\* _CreateChildren: b1, b2, b3, b4 in this order.
_CreateChildren(child) ==
  LET b == child.bounds
      midpoint == GetCenter(b)
  IN <<NewNode(child.path \o <<1>>, b.min, midpoint),
       NewNode(child.path \o <<2>>, <<midpoint[1], b.min[2]>>,
                                    <<b.max[1], midpoint[2]>>),
       NewNode(child.path \o <<3>>, <<b.min[1], midpoint[2]>>,
                                    <<midpoint[1], b.max[2]>>),
       NewNode(child.path \o <<4>>, midpoint, b.max)>>

\* _Insert that creates children only for a node that has none.
RECURSIVE InsertKeepsChildren(_, _, _, _)
InsertKeepsChildren(tree, child, p, qp) ==
  IF ShouldSubdivide(child, p, qp)
  THEN IF Children(tree, child) # {}
       THEN LET c == CHOOSE q \in [1..4 -> Children(tree, child)] :
                       \A i \in 1..4 : Last(q[i].path) = i
            IN InsertKeepsChildren(
                 InsertKeepsChildren(
                   InsertKeepsChildren(
                     InsertKeepsChildren(tree, c[1], p, qp),
                     c[2], p, qp),
                   c[3], p, qp),
                 c[4], p, qp)
       ELSE LET c == _CreateChildren(child)
            IN InsertKeepsChildren(
                 InsertKeepsChildren(
                   InsertKeepsChildren(
                     InsertKeepsChildren(tree \cup Range(c), c[1], p, qp),
                     c[2], p, qp),
                   c[3], p, qp),
                 c[4], p, qp)
  ELSE tree

\* _Insert: the assignment to child.children drops whatever was below child;
\* when the condition is false the node and all below it stay as they are.
RECURSIVE _Insert(_, _, _, _)
_Insert(tree, child, p, qp) ==
  IF ShouldSubdivide(child, p, qp)
  THEN LET c == _CreateChildren(child)
           t0 == {n \in tree : ~IsBelow(child.path, n.path)} \cup Range(c)
       IN _Insert(_Insert(_Insert(_Insert(t0, c[1], p, qp), c[2], p, qp),
                          c[3], p, qp),
                  c[4], p, qp)
  ELSE tree

\* this._root
Root(tree) == CHOOSE n \in tree : n.path = <<>>

\* QuadTree.Insert
Insert(tree, p, qp) == _Insert(tree, Root(tree), p, qp)

\* QuadTree._GetChildren and GetChildren: the leaves below (or at) a node.
RECURSIVE _GetChildren(_, _)
_GetChildren(tree, node) ==
  IF Children(tree, node) = {} THEN {node}
  ELSE UNION {_GetChildren(tree, c) : c \in Children(tree, node)}

GetChildren(tree) == _GetChildren(tree, Root(tree))

\* ------------------------------------------------------------ CubeQuadTree
\* A root of half the size: bounds (-s/2, -s/2) .. (s/2, s/2).
CubeQuadTreeHalfRoots(p) ==
  [f \in Faces |->
     {NewNode(<<>>, <<-(p.radius \div 2), -(p.radius \div 2)>>,
                    <<p.radius \div 2, p.radius \div 2>>)}]

\* new CubeQuadTree(params): six sides, each a QuadTree of size radius.
CubeQuadTree(p) == [f \in Faces |-> QuadTree(SideParams(p, f))]

\* CubeQuadTree.Insert
CubeInsert(sides, p, cp) ==
  [f \in Faces |-> Insert(sides[f], p, SideParams(cp, f))]

\* ------------------------------------------------------------------- Init
\* The manager and its builder after construction.
ManagerInit ==
  /\ pc = "tick"
  /\ _chunks = <<>>
  /\ _pool = <<>>
  /\ _active = Null
  /\ _queued = <<>>
  /\ _old = <<>>
  /\ _new = <<>>
  /\ visible = [t \in TileIds |-> FALSE]
  /\ destroyed = [t \in TileIds |-> FALSE]
  /\ params = [t \in TileIds |-> 0]
  /\ nextId = 1
  /\ op = "init"
  /\ wasBusy = FALSE
  /\ fresh = {}
  /\ retired = {}
  /\ lastTarget = {}
  /\ prevTarget = {}
  /\ nDiff = 0

\* The program: the manager, and the quadtree with the program's constants.
Init ==
  /\ ManagerInit
  /\ _params = ProgramParams
  /\ _sides = CubeQuadTree(_params)
  /\ pos = <<0, 0, 0>>
  /\ nIns = 0

\* TerrainChunkManager.Update, line 345: this._builder.Update()
BuilderUpdate ==
  /\ pc = "tick"
  /\ \E n \in 0..MaxBuildSteps :
       LET s == Update(Cur, n)
       IN /\ Install(s)
          /\ fresh' = IF BusyOf(s) THEN fresh ELSE {}
          /\ retired' = {t \in TileIds : s.destroyed[t] /\ ~destroyed[t]}
  /\ pc' = "gate"
  /\ op' = "BuilderUpdate"
  /\ wasBusy' = Busy
  /\ UNCHANGED <<lastTarget, prevTarget, nDiff>>
  /\ UNCHANGED qtVars

\* A diff of the live map against target, with its bookkeeping.
RunDiff(target) ==
  LET s == _UpdateVisibleChunks_Quadtree(Cur, target)
  IN /\ Fits(Cur, target)
     /\ Install(s)
     /\ fresh' = fresh \cup (Range(s.queued) \ Range(_queued))
     /\ lastTarget' = target
     /\ prevTarget' = lastTarget
     /\ nDiff' = Min(nDiff + 1, 2)

\* TerrainChunkManager.Update, lines 346-348, the builder still Busy.
GateSkip ==
  /\ pc = "gate"
  /\ Busy
  /\ pc' = "tick"
  /\ op' = "GateSkip"
  /\ wasBusy' = Busy
  /\ UNCHANGED <<_chunks, _pool, _active, _queued, _old, _new, visible,
                 destroyed, params, nextId, fresh, retired, lastTarget,
                 prevTarget, nDiff>>
  /\ UNCHANGED qtVars

\* The diff run without the test of Busy.
GateDiffUngated ==
  /\ pc = "gate"
  /\ \E target \in Targets : RunDiff(target)
  /\ pc' = "tick"
  /\ op' = "GateDiff"
  /\ wasBusy' = Busy
  /\ UNCHANGED retired
  /\ UNCHANGED qtVars

\* TerrainChunkManager.Update, lines 346-348, the builder not Busy.
GateDiff ==
  /\ pc = "gate"
  /\ ~Busy
  /\ \E target \in Targets : RunDiff(target)
  /\ pc' = "tick"
  /\ op' = "GateDiff"
  /\ wasBusy' = Busy
  /\ UNCHANGED retired
  /\ UNCHANGED qtVars

\* onNoiseChanged (a GUI onChange callback), between two frames.
OnNoiseChanged ==
  /\ pc = "tick"
  /\ Install(Rebuild(Cur, _chunks))
  /\ op' = "Rebuild"
  /\ wasBusy' = Busy
  /\ UNCHANGED <<pc, fresh, retired, lastTarget, prevTarget, nDiff>>
  /\ UNCHANGED qtVars

Next ==
  \/ BuilderUpdate
  \/ GateSkip
  \/ GateDiff
  \/ OnNoiseChanged

Spec == Init /\ [][Next]_vars

\* ------------------------------------------------- the quadtree on its own
\* Any of the parameter records, and a freshly constructed CubeQuadTree.
InitQT ==
  /\ ManagerInit
  /\ _params \in Configs
  /\ _sides = CubeQuadTree(_params)
  /\ pos = <<0, 0, 0>>
  /\ nIns = 0

\* part_001 366-369: a new CubeQuadTree replaces the one of the last frame.
Construct ==
  /\ nIns > 0
  /\ _sides' = CubeQuadTree(_params)
  /\ nIns' = 0
  /\ UNCHANGED <<_params, pos>>
  /\ UNCHANGED <<pc, _chunks, _pool, _active, _queued, _old, _new, visible,
                 destroyed, params, nextId, op, wasBusy, fresh, retired,
                 lastTarget, prevTarget, nDiff>>

\* CubeQuadTree.Insert(p) on the tree as it is.
InsertPos(p) ==
  /\ nIns < MaxInserts
  /\ _sides' = CubeInsert(_sides, p, _params)
  /\ pos' = p
  /\ nIns' = nIns + 1
  /\ UNCHANGED _params
  /\ UNCHANGED <<pc, _chunks, _pool, _active, _queued, _old, _new, visible,
                 destroyed, params, nextId, op, wasBusy, fresh, retired,
                 lastTarget, prevTarget, nDiff>>

InsertAny == \E p \in Points(_params.radius) : InsertPos(p)

NextQT ==
  \/ Construct
  \/ InsertAny

SpecQT == InitQT /\ [][NextQT]_vars

\* ------------------------------------------------------------------ claims
VisibleTiles == {t \in TileIds : visible[t] /\ ~destroyed[t]}
ChunkTiles == {_chunks[k] : k \in DOMAIN _chunks}
KeysOf(S) == {params[t] : t \in S}
ActiveTile == IF _active = Null THEN {} ELSE {_active.chunk}
InQueueOrActive == Range(_queued) \cup ActiveTile
\* The builder's Update called in this state ends a drain cycle.
Concluding == _queued = <<>> /\ (_active = Null \/ _active.left = 0)

\* C1: between two ticks, once the first drain cycle has ended, the tiles
\* that are visible and not destroyed are the kept tiles plus the tiles on
\* _old, one per key of the previous diff's leaf set; right after a
\* concluding builder Update they are the tiles of _chunks, one per key of
\* the last diff's leaf set.
NoVisibleGap ==
  /\ (pc = "tick" /\ nDiff >= 2) =>
       /\ VisibleTiles = (ChunkTiles \ fresh) \cup Range(_old)
       /\ KeysOf(VisibleTiles) = prevTarget
       /\ Cardinality(VisibleTiles) = Cardinality(prevTarget)
  /\ (pc = "gate" /\ ~Busy /\ nDiff >= 1) =>
       /\ VisibleTiles = ChunkTiles
       /\ KeysOf(VisibleTiles) = lastTarget
       /\ Cardinality(VisibleTiles) = Cardinality(lastTarget)

\* A drain cycle is outstanding between two ticks with kept, retiring and
\* newly allocated tiles.
NoVisibleGapWitness ==
  /\ pc = "tick"
  /\ nDiff >= 2
  /\ Busy
  /\ _old # <<>>
  /\ fresh # {}
  /\ ChunkTiles \ fresh # {}

\* C2: a tile handed out by AllocateChunk is hidden until the builder Update
\* that finds no build left to run and an empty queue, and that step shows
\* every tile of _new.
BatchVisibility ==
  /\ [](\A t \in fresh : ~visible[t])
  /\ [][(\E t \in fresh : visible'[t]) =>
          /\ op' = "BuilderUpdate"
          /\ Concluding
          /\ \A u \in Range(_new) : visible'[u]]_vars

\* The first batch of two or more tiles has just been shown.
BatchVisibilityWitness ==
  /\ pc = "gate"
  /\ wasBusy
  /\ ~Busy
  /\ nDiff = 1
  /\ Cardinality(VisibleTiles) >= 2

\* C3 as stated: no tile in the queue or being built is visible.
HalfBuiltHidden == \A t \in InQueueOrActive : ~visible[t]

\* C3: a tile in the queue or being built is hidden when AllocateChunk put it
\* there, and visible when Rebuild(chunks) put it there.
HalfBuiltHiddenIfAllocated ==
  \A t \in InQueueOrActive : visible[t] <=> t \notin fresh

\* A tile queued by Rebuild(chunks) is being built while it is visible.
HalfBuiltWitness ==
  /\ _active # Null
  /\ visible[_active.chunk]
  /\ ~destroyed[_active.chunk]

\* C4: a tile on _old is not destroyed; tiles are destroyed only by the
\* builder Update that concludes the cycle, which destroys exactly the tiles
\* of _old, when no queued tile and no unfinished build is left, and leaves
\* _old empty.
RetirementOrdering ==
  /\ [](\A t \in Range(_old) : ~destroyed[t])
  /\ [][(\E t \in TileIds : destroyed'[t] /\ ~destroyed[t]) =>
          /\ op' = "BuilderUpdate"
          /\ Concluding
          /\ {t \in TileIds : destroyed'[t] /\ ~destroyed[t]} = Range(_old)
          /\ \A u \in Range(_new) : u \notin ActiveTile \/ _active.left = 0
          /\ _old' = <<>>]_vars

\* A drain cycle that built tiles has just destroyed its retired tiles.
RetirementOrderingWitness ==
  /\ pc = "gate"
  /\ wasBusy
  /\ retired # {}
  /\ _old = <<>>

\* C5: tiles are allocated and entries are added to _old only by the diff of
\* a tick whose builder Update left the builder not Busy, with _new and _old
\* empty: no work of an earlier cycle is left when the next one starts.
SerializedCycles ==
  [][(op' = "GateDiff" \/ nextId' # nextId \/ Len(_old') > Len(_old)
        \/ ~(fresh' \subseteq fresh)) =>
       /\ op' = "GateDiff"
       /\ op = "BuilderUpdate"
       /\ pc = "gate"
       /\ ~Busy
       /\ _new = <<>>
       /\ _old = <<>>]_vars

\* A diff has started a cycle after an earlier cycle ended.
SerializedCyclesWitness ==
  /\ op = "GateDiff"
  /\ nDiff >= 2
  /\ Busy
  /\ Len(_queued) >= 2

\* The dictionaries a caller can pass to Rebuild: under some of the keys, an
\* entry {chunk: tile} with a tile constructed for that key.
TilesOf(k) == {t \in TileIds : params[t] = k}
RebuildArgs ==
  UNION {{d \in [S -> {t \in TileIds : params[t] \in S}] :
            \A k \in S : d[k] \in TilesOf(k)} :
           S \in SUBSET {k \in Keys : TilesOf(k) # {}}}

\* C6: Rebuild called while the builder is Busy changes none of _queued,
\* _old, _new and _active: the GUI callback's call does not, and neither
\* would a call with any other dictionary.
RebuildBusyNoOp ==
  /\ [][(op' = "Rebuild" /\ Busy) =>
          UNCHANGED <<_queued, _old, _new, _active>>]_vars
  /\ [](Busy => \A chunks \in RebuildArgs :
                  LET s == Rebuild(Cur, chunks)
                  IN /\ s.queued = _queued
                     /\ s.old = _old
                     /\ s.new = _new
                     /\ s.active = _active)

\* Rebuild has been called during a drain cycle that has tiles to pass.
RebuildBusyNoOpWitness ==
  /\ op = "Rebuild"
  /\ wasBusy
  /\ Busy
  /\ Cardinality(RebuildArgs) >= 2

\* C7 as stated: after Rebuild(chunks) on an idle builder every tile of
\* chunks is in the build queue and on the retirement list.
RebuildIdleQueuesAndRetires ==
  (op = "Rebuild" /\ ~wasBusy) =>
    /\ ChunkTiles \subseteq Range(_queued)
    /\ ChunkTiles \subseteq Range(_old)

\* C7: Rebuild(chunks) on an idle builder puts every tile of chunks in the
\* build queue, once each, and nothing else; _old, _new and _active stay as
\* they were, so no tile of chunks is put on the retirement list.
RebuildIdleQueuesOnly ==
  [][(op' = "Rebuild" /\ ~Busy) =>
       /\ Range(_queued') = ChunkTiles
       /\ Len(_queued') = Cardinality(DOMAIN _chunks)
       /\ UNCHANGED <<_old, _new, _active, _chunks>>]_vars

\* Rebuild on an idle builder has queued two or more live tiles.
RebuildIdleWitness ==
  /\ op = "Rebuild"
  /\ ~wasBusy
  /\ Len(_queued) >= 2
  /\ Range(_queued) = ChunkTiles

\* C8 as stated: an enqueue batch issued while the builder is Busy leaves
\* the queue and the retirement list as they were, whatever the batch.
EnqueueRejectedWhileBusy ==
  Busy => \A target \in Targets :
            LET s == _UpdateVisibleChunks_Quadtree(Cur, target)
            IN s.queued = _queued /\ s.old = _old

\* C8: the gate is in TerrainChunkManager.Update, not in the builder: the
\* manager issues no enqueue batch while the builder is Busy, so from a Busy
\* state the queue does not grow, no tile is constructed, and _old is left
\* alone or emptied by the concluding builder Update.
EnqueueGatedByManager ==
  [][Busy =>
       /\ Len(_queued') <= Len(_queued)
       /\ nextId' = nextId
       /\ _chunks' = _chunks
       /\ (_old' = _old \/ (op' = "BuilderUpdate" /\ _old' = <<>>))]_vars

\* The manager has skipped the diff in a tick that left the builder Busy with
\* retirements pending.
EnqueueGatedWitness ==
  /\ op = "GateSkip"
  /\ Busy
  /\ _old # <<>>
  /\ _queued # <<>>

\* C9: a diff of the live map (previous) against the leaf keys (target)
\* keeps the entries of previous whose key is in target, queues one
\* AllocateChunk tile for each key of target that previous lacks, pushes onto
\* _old the tiles of the keys of previous that target lacks, and leaves
\* _chunks with exactly the keys of target.
DiffCorrectness ==
  [][op' = "GateDiff" =>
       LET previous == _chunks
           target == lastTarget'
           kept == {k \in DOMAIN _chunks' :
                      k \in DOMAIN previous /\ _chunks'[k] = previous[k]}
           toBuild == {k \in DOMAIN _chunks' :
                         /\ _chunks'[k] \in Range(_queued') \ Range(_queued)
                         /\ params'[_chunks'[k]] = k}
           toRetire == {k \in DOMAIN previous :
                          previous[k] \in Range(_old') \ Range(_old)}
       IN /\ kept = (DOMAIN previous) \cap target
          /\ toBuild = target \ DOMAIN previous
          /\ toRetire = (DOMAIN previous) \ target
          /\ kept \cap toBuild = {}
          /\ kept \cup toBuild = target
          /\ kept \cap toRetire = {}
          /\ kept \cup toRetire = DOMAIN previous
          /\ DOMAIN _chunks' = target
          /\ Len(_queued') = Len(_queued) + Cardinality(toBuild)
          /\ Len(_old') = Len(_old) + Cardinality(toRetire)]_vars

\* A diff has kept a tile, queued a new one and retired an old one.
DiffCorrectnessWitness ==
  /\ op = "GateDiff"
  /\ ChunkTiles \ fresh # {}
  /\ ChunkTiles \cap fresh # {}
  /\ _old # <<>>
  /\ prevTarget \ lastTarget # {}

\* C10 as stated: after the concluding builder Update every tile that was on
\* the retirement list is in the pool's bucket of its width.
RetiredTilesPooled ==
  (pc = "gate" /\ op = "BuilderUpdate") =>
    \A t \in retired :
      /\ Width(params[t]) \in DOMAIN _pool
      /\ t \in Range(_pool[Width(params[t])])

\* C11 as stated: after a diff the live map holds the kept entries only; no
\* tile that waits in the queue or is being built is in it.
LiveMapHoldsOnlyKept ==
  \A t \in fresh : t \in InQueueOrActive => t \notin ChunkTiles

\* C11: a tile handed out by AllocateChunk is in the live map _chunks, under
\* its key, from the diff that enqueues it on: while it waits, while it is
\* built and until the cycle concludes.
EnqueuedTilesAreLive ==
  \A t \in fresh :
    /\ params[t] \in DOMAIN _chunks
    /\ _chunks[params[t]] = t

\* A tile of the live map is being built and has not been shown yet.
EnqueuedTilesWitness ==
  /\ pc = "tick"
  /\ _active # Null
  /\ _active.chunk \in fresh
  /\ _active.chunk \in ChunkTiles
  /\ ~visible[_active.chunk]

\* C19: while a build is active, a builder Update does nothing but advance it
\* by one step: the same tile stays active with one yield less, nothing is
\* popped and nothing is added to _new, until the step in which the build
\* reports done; no other operation touches _active.
SingleBuild ==
  [][_active # Null =>
       IF op' = "BuilderUpdate"
       THEN IF _active.left > 0
            THEN /\ _active' = [chunk |-> _active.chunk,
                                left |-> _active.left - 1]
                 /\ _queued' = _queued
                 /\ _new' = _new
            ELSE _active' # _active
       ELSE _active' = _active]_vars

\* A build is running between two frames with other tiles waiting.
SingleBuildWitness ==
  /\ pc = "tick"
  /\ op = "GateSkip"
  /\ _active # Null
  /\ _active.left < MaxBuildSteps
  /\ _queued # <<>>

\* C20 as stated: a builder Update of a drain cycle that is not the concluding
\* one ends with an active build.
ActiveAfterEveryStep ==
  (pc = "gate" /\ op = "BuilderUpdate" /\ Busy) => _active # Null

\* C20: the builder Update in which the running build reports done pops
\* nothing: it ends with _active null and the queue as it was, and the next
\* queued tile is popped and started by the following Update.
BuildEndThenPop ==
  [][(op' = "BuilderUpdate" /\ _queued # <<>>) =>
       IF _active # Null /\ _active.left = 0
       THEN /\ _active' = Null
            /\ _queued' = _queued
            /\ _new' = _new
       ELSE IF _active = Null
            THEN /\ _active' # Null
                 /\ _active'.chunk = Last(_queued)
                 /\ _queued' = Front(_queued)
                 /\ _new' = Append(_new, Last(_queued))
            ELSE _queued' = _queued]_vars

\* A build has just ended and the next tile still waits in the queue.
BuildEndWitness ==
  /\ pc = "gate"
  /\ op = "BuilderUpdate"
  /\ _active = Null
  /\ _queued # <<>>
  /\ _new # <<>>

\* The frame loop keeps running: TerrainChunkManager.Update is called again
\* and again, each call being the builder Update followed by the Busy gate.
SpecLive ==
  /\ Init
  /\ [][Next]_vars
  /\ WF_vars(BuilderUpdate)
  /\ WF_vars(GateSkip)
  /\ WF_vars(GateDiff)

\* C18: from every Busy state the builder reaches the concluding step, after
\* which no build is active and _queued, _old and _new are empty.
DrainTerminates ==
  Busy ~> (/\ op = "BuilderUpdate"
           /\ _active = Null
           /\ _queued = <<>>
           /\ _old = <<>>
           /\ _new = <<>>)

\* The concluding step of a second drain cycle has just run.
DrainTerminatesWitness ==
  /\ pc = "gate"
  /\ op = "BuilderUpdate"
  /\ wasBusy
  /\ ~Busy
  /\ _new = <<>>
  /\ nDiff = 2

\* C16: every tile that is live and neither queued nor being built when a
\* sampler-parameter change is rejected because the builder is Busy is later
\* rebuilt (becomes the active build) or retired (destroyed).
RejectedChangeRetried ==
  \A t \in TileIds :
    (op = "Rebuild" /\ wasBusy /\ t \in ChunkTiles /\ t \notin InQueueOrActive)
      ~> (destroyed[t] \/ (_active # Null /\ _active.chunk = t))

\* ------------------------------------------------------- quadtree claims
\* The params of the QuadTree of side f of the tree in the state.
QP(f) == SideParams(_params, f)

\* A point of the face plane lies inside or on the edge of a node's bounds.
Inside(node, v) ==
  /\ node.bounds.min[1] <= v[1] /\ v[1] <= node.bounds.max[1]
  /\ node.bounds.min[2] <= v[2] /\ v[2] <= node.bounds.max[2]

\* Node a lies within the bounds of node b.
Within(a, b) == Inside(b, a.bounds.min) /\ Inside(b, a.bounds.max)

\* Two nodes share no interior point.
InteriorsDisjoint(a, b) ==
  \/ a.bounds.max[1] <= b.bounds.min[1]
  \/ b.bounds.max[1] <= a.bounds.min[1]
  \/ a.bounds.max[2] <= b.bounds.min[2]
  \/ b.bounds.max[2] <= a.bounds.min[2]

RECURSIVE TotalArea(_)
TotalArea(S) ==
  IF S = {} THEN 0
  ELSE LET n == CHOOSE m \in S : TRUE
       IN SizeX(n) * SizeY(n) + TotalArea(S \ {n})

\* The nodes of S cover node b exactly and overlap on edges only.
Tiles(S, b) ==
  /\ \A n \in S : Within(n, b) /\ SizeX(n) > 0 /\ SizeY(n) > 0
  /\ \A n \in S : \A m \in S \ {n} : InteriorsDisjoint(n, m)
  /\ TotalArea(S) = SizeX(b) * SizeY(b)

\* C12 as stated: no leaf returned by GetChildren has an edge shorter than
\* min_node_size, whatever the root size, min_node_size and inserted points.
MinimumSizeFloor ==
  \A f \in Faces : \A n \in GetChildren(_sides[f]) :
    /\ SizeX(n) >= _params.min_node_size
    /\ SizeY(n) >= _params.min_node_size

\* C13: after any sequence of Insert calls the leaves of each face tile the
\* root square (they cover it and overlap on edges only), and every node that
\* is not a leaf has exactly four children, which tile its bounds.
PartitionComplete ==
  \A f \in Faces :
    /\ Tiles(GetChildren(_sides[f]), Root(_sides[f]))
    /\ \A n \in _sides[f] :
         Children(_sides[f], n) # {} =>
           /\ Cardinality(Children(_sides[f], n)) = 4
           /\ Tiles(Children(_sides[f], n), n)

\* Two Inserts have run and a face holds subdivisions that the second point
\* alone would not have made.
PartitionCompleteWitness ==
  /\ nIns = 2
  /\ \E f \in Faces :
       /\ Cardinality(GetChildren(_sides[f])) > 4
       /\ _sides[f] # Insert(QuadTree(QP(f)), pos, QP(f))

\* The scenario of C14: the program's parameters and one Insert of the point
\* on the surface under the +Z pole, (0, 0, radius).
PoleScenario ==
  /\ _params = ProgramParams
  /\ nIns = 1
  /\ pos = <<0, 0, Units(_PLANET_RADIUS)>>

\* C14 as stated: in the scenario the +Z face is subdivided down to leaves of
\* the minimum size and the -Z face is one undivided root leaf whose size is
\* the planet radius.
OppositeFaceUndivided ==
  PoleScenario =>
    /\ \E n \in GetChildren(_sides[5]) : SizeX(n) = Units(_MIN_CELL_SIZE)
    /\ GetChildren(_sides[6]) = {Root(_sides[6])}
    /\ SizeX(Root(_sides[6])) = Units(_PLANET_RADIUS)

\* C14: in the scenario the +Z face has leaves of 500, 1000 and 2000 only,
\* those at the contact point being of size 500; every root has size 8000,
\* twice the radius; and the -Z root is subdivided once, into four leaves of
\* size 4000.
PoleSubdivision ==
  PoleScenario =>
    /\ {SizeX(n) : n \in GetChildren(_sides[5])} =
         {Units(_MIN_CELL_SIZE), 2 * Units(_MIN_CELL_SIZE),
          4 * Units(_MIN_CELL_SIZE)}
    /\ \A n \in GetChildren(_sides[5]) :
         Inside(n, <<0, 0>>) => SizeX(n) = Units(_MIN_CELL_SIZE)
    /\ \A f \in Faces : SizeX(Root(_sides[f])) = 2 * Units(_PLANET_RADIUS)
    /\ GetChildren(_sides[6]) = Children(_sides[6], Root(_sides[6]))
    /\ Cardinality(GetChildren(_sides[6])) = 4
    /\ \A n \in GetChildren(_sides[6]) : SizeX(n) = Units(_PLANET_RADIUS)

\* The scenario has run: the +Z face is subdivided and the -Z root is not a
\* leaf.
PoleSubdivisionWitness ==
  /\ PoleScenario
  /\ Cardinality(GetChildren(_sides[5])) > 4
  /\ Root(_sides[6]) \notin GetChildren(_sides[6])

\* C15 as stated: whatever was inserted before, the leaves are those of a
\* freshly constructed tree after Insert of the last point alone.
LastPointOnly ==
  nIns >= 1 =>
    \A f \in Faces :
      GetChildren(_sides[f]) = GetChildren(Insert(QuadTree(QP(f)), pos, QP(f)))

\* C15: Insert does not start from an empty root. A face whose root passes
\* the subdivision test for the new point becomes the tree a fresh QuadTree
\* gets for that point; a face whose root fails it is left as it was, with
\* every subdivision of the earlier points.
InsertReplacesOrKeeps ==
  [][nIns' = nIns + 1 =>
       \A f \in Faces :
         _sides'[f] = IF ShouldSubdivide(Root(_sides[f]), pos', QP(f))
                      THEN Insert(QuadTree(QP(f)), pos', QP(f))
                      ELSE _sides[f]]_vars

\* After a second Insert one face was rebuilt for the new point and another
\* face still has the subdivisions of the first point under a root that
\* fails the test.
InsertReplacesOrKeepsWitness ==
  /\ nIns = 2
  /\ \E f \in Faces :
       /\ ~ShouldSubdivide(Root(_sides[f]), pos, QP(f))
       /\ Children(_sides[f], Root(_sides[f])) # {}
  /\ \E f \in Faces :
       /\ ShouldSubdivide(Root(_sides[f]), pos, QP(f))
       /\ Cardinality(_sides[f]) > 5

\* C17: after one Insert on a fresh tree, a node has children exactly when
\* its sphereCenter is closer to the point than 1.25 times its size and its
\* size is greater than min_node_size; the children are then the four
\* quadrants of half the size split at the node's centre; and every node but
\* the root hangs under a node of the tree.
SubdivisionRule ==
  nIns = 1 =>
    \A f \in Faces : \A n \in _sides[f] :
      LET kids == Children(_sides[f], n)
          h == SizeX(n) \div 2
          x0 == n.bounds.min[1]
          y0 == n.bounds.min[2]
      IN /\ kids # {} <=> (/\ DistanceBelow(n, pos, QP(f))
                           /\ SizeX(n) > _params.min_node_size)
         /\ kids # {} =>
              /\ Cardinality(kids) = 4
              /\ 2 * h = SizeX(n)
              /\ {k.bounds : k \in kids} =
                   {[min |-> <<x, y>>, max |-> <<x + h, y + h>>] :
                      x \in {x0, x0 + h}, y \in {y0, y0 + h}}
         /\ n.path # <<>> => \E m \in _sides[f] : n \in Children(_sides[f], m)

\* One Insert has run; one root is at exactly 1.25 times its size from the
\* point and is a leaf, another root is subdivided, and some leaf of exactly
\* the minimum size is close enough to the point.
SubdivisionRuleWitness ==
  /\ nIns = 1
  /\ \E f \in Faces :
       /\ DistanceNotAbove(Root(_sides[f]), pos, QP(f))
       /\ ~DistanceBelow(Root(_sides[f]), pos, QP(f))
       /\ _sides[f] = QuadTree(QP(f))
  /\ \E f \in Faces : \E n \in GetChildren(_sides[f]) :
       /\ n.path # <<>>
       /\ SizeX(n) = _params.min_node_size
       /\ DistanceBelow(n, pos, QP(f))

====
